---- MODULE Spec2Model ----
(***************************************************************************)
(* Model of the mags motion planner: the tangent-and-arc visibility graph  *)
(* (planning/graph.py), the A* search (mags/planning/astar.py) and the     *)
(* move orchestrator and toolpath emitter (mags/move_manager.py).          *)
(*                                                                         *)
(* Numbers are fixed point: a length or coordinate v of the program is the *)
(* integer v * Scale.  A float operation whose result is nan is the value  *)
(* NaN; every comparison with NaN is false and every arithmetic operation  *)
(* on NaN is NaN, as in IEEE arithmetic.                                   *)
(***************************************************************************)
EXTENDS Integers, Sequences, FiniteSets, TLC

VARIABLES
    obstacles,      \* the list handed to Graph.__init__
    circles,        \* Graph.circles, in insertion order
    nodes,          \* Graph.nodes, in insertion order
    surfing_edges,  \* Graph.surfing_edges
    hugging_edges,  \* Graph.hugging_edges
    next_id,        \* identity of the next object created
    npoints,        \* number of add_point calls made so far
    start,          \* Astar.start (None while unset)
    goal,           \* Astar.goal (None while unset)
    frontier,       \* Astar.frontier, the queued (priority, node) entries
    explored,       \* Astar.explored, node id -> predecessor node
    cost,           \* Astar.cost, node id -> cost so far
    path,           \* Astar.path, the node sequence calculate_path returned
    outcome,        \* how calculate_path ended: "returned" or the exception raised
    pc,             \* position inside calculate_path
    printed,        \* lines printed by calculate_path
    goal_dequeued,  \* whether the search loop left through its break
    trace_input,    \* trace_path: the path argument
    trace_i,        \* trace_path: the loop index i (1-based)
    arc_start,      \* trace_path: the node that opened the pending arc run, or None
    gcode,          \* trace_path: the instructions written so far
    trace_pc,       \* position inside trace_path
    board,          \* PhysicalBoard: the occupied squares
    captured,       \* PhysicalBoard: the number of pieces in the staging area
    board_before,   \* the board as the current request found it
    best_move,      \* respond: the move from stockfish, <<source, destination>>
    map_excluded,   \* respond: the squares left out of the obstacle map
    capture_path,   \* respond: the path of the captured piece, or NoPath
    move_path,      \* respond: the path of the moving piece, or NoPath
    calls,          \* respond: the calls made on the planner and the board, in order
    respond_pc      \* position inside respond

graphVars == <<obstacles, circles, nodes, surfing_edges, hugging_edges, next_id, npoints>>
astarVars == <<start, goal, frontier, explored, cost, path, outcome, pc, printed, goal_dequeued>>
traceVars == <<trace_input, trace_i, arc_start, gcode, trace_pc>>
respondVars == <<board, captured, board_before, best_move, map_excluded, capture_path,
                 move_path, calls, respond_pc>>
vars == <<graphVars, astarVars, traceVars, respondVars>>

-----------------------------------------------------------------------------
(* Bounds of the model *)

Scale == 100        \* fixed-point units per length unit
MaxDiscs == 2       \* longest obstacle list given to the constructor
MaxPoints == 3      \* add_point calls per graph

-----------------------------------------------------------------------------
(* Numbers *)

\* Python's None, where a node is expected
None == [id |-> 0]

NaN == 0 - 1073741824

Abs(x) == IF x < 0 THEN 0 - x ELSE x

RECURSIVE ISqrtIter(_, _, _)
ISqrtIter(n, lo, hi) ==
    IF lo >= hi THEN lo
    ELSE LET mid == (lo + hi + 1) \div 2
         IN IF mid * mid <= n THEN ISqrtIter(n, mid, hi)
                              ELSE ISqrtIter(n, lo, mid - 1)

\* square root; nan for a negative argument
Sqrt(n) ==
    IF n = NaN \/ n < 0 THEN NaN
    ELSE ISqrtIter(n, 0, IF n < 4194304 THEN 2047 ELSE 46340)

\* a / b rounded to the nearest unit, b > 0
RoundDiv(a, b) == (2 * a + b) \div (2 * b)

Add(a, b) == IF a = NaN \/ b = NaN THEN NaN ELSE a + b
Less(a, b) == a # NaN /\ b # NaN /\ a < b
Leq(a, b) == a # NaN /\ b # NaN /\ a <= b

Min(a, b) == IF a < b THEN a ELSE b
Max(a, b) == IF a > b THEN a ELSE b

\* np.clip(c, -1.0, 1.0); nan stays nan
Clip(c) == IF c = NaN THEN NaN ELSE Max(0 - Scale, Min(Scale, c))

PiFP == (314159 * Scale) \div 100000

\* np.arccos on [0, 1] by the polynomial of Abramowitz and Stegun 4.4.45,
\* arccos(x) = sqrt(1 - x) (1.5707288 - 0.2121144 x + 0.0742610 x^2 - 0.0187293 x^3)
ArcCosPos(x) ==
    LET sq == ISqrtIter(((Scale - x) * 1000000) \div Scale, 0, 46340)   \* 1000 sqrt(1 - x)
        poly == 157073 - (21211 * x) \div Scale + (7426 * x * x) \div (Scale * Scale)
                - (1873 * x * x * x) \div (Scale * Scale * Scale)       \* in 1e-5
    IN (sq * poly) \div (100000000 \div Scale)

\* np.arccos of a cosine in [-1, 1]: an angle in [0, pi]
ArcCos(c) ==
    IF c = NaN THEN NaN
    ELSE IF c >= 0 THEN ArcCosPos(c) ELSE PiFP - ArcCosPos(0 - c)

IsNaNPos(p) == p[1] = NaN \/ p[2] = NaN
NaNPos == <<NaN, NaN>>

VSub(a, b) == <<a[1] - b[1], a[2] - b[2]>>
VNeg(a) == <<0 - a[1], 0 - a[2]>>
Dot(a, b) == a[1] * b[1] + a[2] * b[2]
Cross(a, b) == a[1] * b[2] - a[2] * b[1]

\* utils.dist: Euclidean distance
dist(a, b) ==
    IF IsNaNPos(a) \/ IsNaNPos(b) THEN NaN
    ELSE Sqrt(Dot(VSub(b, a), VSub(b, a)))

\* transform_polar(origin, rad, phi + sgn * theta), where phi is the angle of
\* the vector e (v2v_angle), theta = arccos(k / |e|) and L = |e| * sin(theta)
\* = sqrt(|e|^2 - k^2): by the angle-sum identities
\*   cos(phi + s theta) = (e.x k - s e.y L) / |e|^2
\*   sin(phi + s theta) = (e.y k + s e.x L) / |e|^2
\* arccos of an argument above 1 is nan, and so is the point.
PolarPoint(origin, rad, e, k, sgn) ==
    LET d2 == Dot(e, e)
        L == Sqrt(d2 - k * k)
    IN IF L = NaN \/ d2 = 0 THEN NaNPos
       ELSE << origin[1] + RoundDiv(rad * (e[1] * k - sgn * e[2] * L), d2),
               origin[2] + RoundDiv(rad * (e[2] * k + sgn * e[1] * L), d2) >>

-----------------------------------------------------------------------------
(* Disc / Node / Edge *)

Circle(id, r, center) == [id |-> id, r |-> r, center |-> center]
Node(id, circle, position) == [id |-> id, circle |-> circle, position |-> position]
Edge(first, second, is_surfing) == [first |-> first, second |-> second, surfing |-> is_surfing]

\* Edge.check_equivalence: same two node objects, in either order
check_equivalence(e, other) ==
    \/ (e.first.id = other.first.id /\ e.second.id = other.second.id)
    \/ (e.first.id = other.second.id /\ e.second.id = other.first.id)

-----------------------------------------------------------------------------
(* Graph: operators on the record g of the graph's fields *)

EmptyGraph(id0) ==
    [circles |-> <<>>, nodes |-> <<>>, surfing_edges |-> <<>>,
     hugging_edges |-> <<>>, next_id |-> id0]

Registered(g, circle) == \E i \in 1..Len(g.circles) : g.circles[i].id = circle.id

\* Graph.add_node: the node's circle is registered here and nowhere else
add_node(g, node) ==
    [g EXCEPT !.circles = IF Registered(g, node.circle) THEN @ ELSE Append(@, node.circle),
              !.nodes = Append(@, node)]

\* Graph.add_edge
add_edge(g, edge) ==
    IF ~edge.surfing
    THEN [g EXCEPT !.hugging_edges = Append(@, edge)]
    ELSE [g EXCEPT !.surfing_edges = Append(@, edge)]

\* the distance d that check_circle_intersection compares with the radius:
\* to the nearer endpoint when the centre projects outside the segment, else
\* the height of the parallelogram over the segment
SegmentDistance(circle, edge) ==
    LET center == circle.center
        pos1 == edge.first.position
        pos2 == edge.second.position
    IN IF IsNaNPos(pos1) \/ IsNaNPos(pos2) THEN NaN
       ELSE IF Dot(VSub(center, pos1), VSub(pos2, pos1)) < 0 THEN dist(center, pos1)
       ELSE IF Dot(VSub(center, pos2), VSub(pos1, pos2)) < 0 THEN dist(center, pos2)
       ELSE IF dist(pos2, pos1) = 0 THEN NaN            \* 0.0 / 0.0
       ELSE Abs(Cross(VSub(pos2, pos1), VSub(center, pos1))) \div dist(pos2, pos1)

\* Graph.check_circle_intersection: d <= r
check_circle_intersection(circle, edge) == Leq(SegmentDistance(circle, edge), circle.r)

\* Graph.check_intersection
check_intersection(g, edge) ==
    \E i \in 1..Len(g.circles) :
        /\ g.circles[i].id \notin {edge.first.circle.id, edge.second.circle.id}
        /\ check_circle_intersection(g.circles[i], edge)

\* Graph.clean_surfing_edges
clean_surfing_edges(g) ==
    [g EXCEPT !.surfing_edges = SelectSeq(@, LAMBDA e : ~check_intersection(g, e))]

NodesOn(g, circle) == SelectSeq(g.nodes, LAMBDA n : n.circle.id = circle.id)

\* the cycle of hugging edges through one circle's nodes, in list order
RingEdges(ns) ==
    [i \in 1..Len(ns) |-> Edge(ns[i], ns[(i % Len(ns)) + 1], FALSE)]

RECURSIVE HuggingFrom(_, _)
HuggingFrom(g, i) ==
    IF i > Len(g.circles) THEN <<>>
    ELSE (IF g.circles[i].r = 0 THEN <<>> ELSE RingEdges(NodesOn(g, g.circles[i])))
         \o HuggingFrom(g, i + 1)

\* a rebuild that appends the new rings to the edges of the earlier calls
add_hugging_edges_accumulating(g) ==
    [g EXCEPT !.hugging_edges = @ \o HuggingFrom(g, 1)]

\* Graph.add_hugging_edges
add_hugging_edges(g) == [g EXCEPT !.hugging_edges = HuggingFrom(g, 1)]

\* the four nodes and two surfing edges of one bitangent pair
AddBitangents(g, circle1, circle2, C, D, E, F) ==
    LET C_node == Node(g.next_id, circle1, C)
        D_node == Node(g.next_id + 1, circle1, D)
        E_node == Node(g.next_id + 2, circle2, E)
        F_node == Node(g.next_id + 3, circle2, F)
        g1 == add_node(add_node(add_node(add_node(g, C_node), D_node), E_node), F_node)
        g2 == add_edge(add_edge(g1, Edge(D_node, E_node, TRUE)), Edge(C_node, F_node, TRUE))
    IN [g2 EXCEPT !.next_id = g.next_id + 4]

\* Graph.add_internal_bitangets
add_internal_bitangets(g, circle1, circle2) ==
    LET A == circle1.center
        B == circle2.center
        r1 == circle1.r
        r2 == circle2.r
        k == r1 + r2
    IN AddBitangents(g, circle1, circle2,
            PolarPoint(A, r1, VSub(B, A), k, 1),
            PolarPoint(A, r1, VSub(B, A), k, 0 - 1),
            PolarPoint(B, r2, VSub(A, B), k, 0 - 1),
            PolarPoint(B, r2, VSub(A, B), k, 1))

\* Graph.add_external_bitangets
add_external_bitangets(g, circle1, circle2) ==
    LET A == circle1.center
        B == circle2.center
        r1 == circle1.r
        r2 == circle2.r
        k == Abs(r1 - r2)
    IN AddBitangents(g, circle1, circle2,
            PolarPoint(A, r1, VSub(B, A), k, 1),
            PolarPoint(A, r1, VSub(B, A), k, 0 - 1),
            PolarPoint(B, r2, VSub(B, A), k, 0 - 1),
            PolarPoint(B, r2, VSub(B, A), k, 1))

\* Graph.add_tangents
add_tangents(g, point_node, circle) ==
    IF circle.r = 0
    THEN LET circle_node == NodesOn(g, circle)[1]
             edge == Edge(point_node, circle_node, TRUE)
         IN IF \E i \in 1..Len(g.surfing_edges) : check_equivalence(edge, g.surfing_edges[i])
            THEN g
            ELSE add_edge(g, edge)
    ELSE LET A == point_node.position
             B == circle.center
             r == circle.r
             E_node == Node(g.next_id, circle, PolarPoint(B, r, VSub(A, B), r, 0 - 1))
             F_node == Node(g.next_id + 1, circle, PolarPoint(B, r, VSub(A, B), r, 1))
             g1 == add_node(add_node(g, E_node), F_node)
             g2 == add_edge(add_edge(g1, Edge(point_node, E_node, TRUE)),
                            Edge(point_node, F_node, TRUE))
         IN [g2 EXCEPT !.next_id = g.next_id + 2]

RECURSIVE TangentsFrom(_, _, _)
TangentsFrom(g, node, i) ==
    IF i > Len(g.circles) THEN g
    ELSE IF g.circles[i].id = node.circle.id THEN TangentsFrom(g, node, i + 1)
    ELSE TangentsFrom(add_tangents(g, node, g.circles[i]), node, i + 1)

\* an insertion that leaves the new tangent edges unpruned
add_point_unpruned(g, node) ==
    add_hugging_edges(TangentsFrom(add_node(g, node), node, 1))

\* Graph.add_point
add_point(g, node) ==
    add_hugging_edges(clean_surfing_edges(TangentsFrom(add_node(g, node), node, 1)))

\* the body of the constructor's double loop, over the ordered pairs (i, j)
RECURSIVE PairsFrom(_, _, _, _)
PairsFrom(g, cs, i, j) ==
    IF i > Len(cs) THEN g
    ELSE IF j > Len(cs) THEN PairsFrom(g, cs, i + 1, 1)
    ELSE IF cs[i].id = cs[j].id THEN PairsFrom(g, cs, i, j + 1)
    ELSE PairsFrom(add_external_bitangets(add_internal_bitangets(g, cs[j], cs[i]), cs[j], cs[i]),
                   cs, i, j + 1)

\* Graph.__init__
Graph(cs) == clean_surfing_edges(add_hugging_edges(PairsFrom(EmptyGraph(100), cs, 1, 1)))

-----------------------------------------------------------------------------
(* Inputs *)

P(x, y) == <<x * Scale, y * Scale>>

\* obstacle discs the board can hand to the constructor (radius 1 each)
DiscPool ==
    { Circle(1, Scale, P(5, 0)),
      Circle(2, Scale, P(5, 1)),
      Circle(3, Scale, P(5, 5)) }

Apart(a, b) ==
    Dot(VSub(a.center, b.center), VSub(a.center, b.center)) >= (a.r + b.r) * (a.r + b.r)

\* lists of distinct, pairwise non-overlapping discs, in the order of their ids
ObstacleLists ==
    { s \in UNION { [1..n -> DiscPool] : n \in 0..MaxDiscs } :
        \A i, j \in DOMAIN s : i < j => (s[i].id < s[j].id /\ Apart(s[i], s[j])) }

\* positions given to set_start / set_goal
\* the last lies inside the first disc of DiscPool
PointPool == { P(0, 0), P(10, 0), <<(11 * Scale) \div 2, 0>> }

-----------------------------------------------------------------------------
(* State machine: graph construction and point insertion *)

GraphIs(g) ==
    /\ circles = g.circles
    /\ nodes = g.nodes
    /\ surfing_edges = g.surfing_edges
    /\ hugging_edges = g.hugging_edges
    /\ next_id = g.next_id

GraphBecomes(g) ==
    /\ circles' = g.circles
    /\ nodes' = g.nodes
    /\ surfing_edges' = g.surfing_edges
    /\ hugging_edges' = g.hugging_edges
    /\ next_id' = g.next_id

TheGraph ==
    [circles |-> circles, nodes |-> nodes, surfing_edges |-> surfing_edges,
     hugging_edges |-> hugging_edges, next_id |-> next_id]

AstarInit ==
    /\ start = None
    /\ goal = None
    /\ frontier = <<>>
    /\ explored = <<>>
    /\ cost = <<>>
    /\ path = <<>>
    /\ outcome = "none"
    /\ pc = "idle"
    /\ printed = <<>>
    /\ goal_dequeued = FALSE

\* no toolpath is being traced
TraceIdle ==
    /\ trace_input = <<>>
    /\ trace_i = 0
    /\ arc_start = None
    /\ gcode = <<>>
    /\ trace_pc = "idle"

\* no move manager is running
RespondIdle ==
    /\ board = {}
    /\ captured = 0
    /\ board_before = {}
    /\ best_move = <<>>
    /\ map_excluded = {}
    /\ capture_path = <<>>
    /\ move_path = <<>>
    /\ calls = <<>>
    /\ respond_pc = "idle"

Init ==
    /\ obstacles \in ObstacleLists
    /\ GraphIs(Graph(obstacles))
    /\ npoints = 0
    /\ AstarInit
    /\ TraceIdle
    /\ RespondIdle

\* the Node of a new Circle(0, position), as set_start and set_goal build it
PointNode(id, position) == Node(id + 1, Circle(id, 0, position), position)

\* Astar.set_start
set_start(position) ==
    /\ npoints < MaxPoints
    /\ pc = "idle"
    /\ LET n == PointNode(next_id, position)
       IN /\ start' = n
          /\ GraphBecomes(add_point([TheGraph EXCEPT !.next_id = next_id + 2], n))
    /\ npoints' = npoints + 1
    /\ pc' = "idle"
    /\ UNCHANGED <<obstacles, goal, frontier, explored, cost, path, outcome, printed, goal_dequeued>>
    /\ UNCHANGED <<traceVars, respondVars>>

\* Astar.set_goal
set_goal(position) ==
    /\ npoints < MaxPoints
    /\ pc = "idle"
    /\ LET n == PointNode(next_id, position)
       IN /\ goal' = n
          /\ GraphBecomes(add_point([TheGraph EXCEPT !.next_id = next_id + 2], n))
    /\ npoints' = npoints + 1
    /\ pc' = "idle"
    /\ UNCHANGED <<obstacles, start, frontier, explored, cost, path, outcome, printed, goal_dequeued>>
    /\ UNCHANGED <<traceVars, respondVars>>

-----------------------------------------------------------------------------
(* Astar *)

\* Graph.get_edges
get_edges(g) == g.surfing_edges \o g.hugging_edges

\* Graph.get_neighbors: the (node, edge) pairs of the edges at a node
RECURSIVE NeighborsFrom(_, _, _)
NeighborsFrom(es, node, i) ==
    IF i > Len(es) THEN <<>>
    ELSE (IF es[i].first.id = node.id THEN << <<es[i].second, es[i]>> >>
          ELSE IF es[i].second.id = node.id THEN << <<es[i].first, es[i]>> >>
          ELSE <<>>)
         \o NeighborsFrom(es, node, i + 1)

get_neighbors(g, node) == NeighborsFrom(get_edges(g), node, 1)

\* Astar.get_edge_cost
get_edge_cost(edge) ==
    IF edge.surfing
    THEN Add(Scale, dist(edge.first.position, edge.second.position))
    ELSE IF IsNaNPos(edge.first.position) \/ IsNaNPos(edge.second.position) THEN NaN
    ELSE LET arc_center == edge.first.circle.center
             a == VSub(edge.first.position, arc_center)
             b == VSub(edge.second.position, arc_center)
             norms == Sqrt(Dot(a, a)) * Sqrt(Dot(b, b))
             cos_angle == IF norms = 0 THEN NaN ELSE Clip(RoundDiv(Dot(a, b) * Scale, norms))
             angle == ArcCos(cos_angle)
             radius == edge.first.circle.r
             arc_length == IF angle = NaN THEN NaN ELSE RoundDiv(radius * angle, Scale)
         IN Add(Scale, arc_length)

\* Astar.get_heuristic
get_heuristic(node) == dist(node.position, goal.position)

Put(f, k, v) == [x \in (DOMAIN f) \cup {k} |-> IF x = k THEN v ELSE f[x]]

\* a queue order that serves the entry of the greatest priority first
EntryLess_reversed(a, b) ==
    IF a[1] = NaN \/ b[1] = NaN THEN {FALSE}
    ELSE IF a[1] > b[1] THEN {TRUE}
    ELSE IF a[1] < b[1] THEN {FALSE}
    ELSE IF a[2].id = b[2].id THEN {FALSE}
    ELSE {TRUE, FALSE}

\* (priority, node) < (priority, node) as Python compares the tuples: by
\* priority, and entries of equal priority by Node.__lt__, the order of the
\* two objects' addresses, which may fall either way.  A comparison with a
\* nan priority is false.  The set of the results the comparison can give.
EntryLess(a, b) ==
    IF a[1] = NaN \/ b[1] = NaN THEN {FALSE}
    ELSE IF a[1] < b[1] THEN {TRUE}
    ELSE IF a[1] > b[1] THEN {FALSE}
    ELSE IF a[2].id = b[2].id THEN {FALSE}
    ELSE {TRUE, FALSE}

\* heapq._siftdown, on the 1-based heap array: the set of resulting arrays
RECURSIVE siftdown(_, _, _, _)
siftdown(heap, startpos, pos, newitem) ==
    IF pos > startpos
    THEN LET parentpos == pos \div 2
             parent == heap[parentpos]
         IN UNION { IF lt THEN siftdown([heap EXCEPT ![pos] = parent], startpos, parentpos, newitem)
                          ELSE {[heap EXCEPT ![pos] = newitem]}
                    : lt \in EntryLess(newitem, parent) }
    ELSE {[heap EXCEPT ![pos] = newitem]}

\* the loop of heapq._siftup, moving the smaller child up until a leaf:
\* the set of (array, position of the hole)
RECURSIVE SiftUpLoop(_, _)
SiftUpLoop(heap, pos) ==
    LET childpos == 2 * pos
        rightpos == childpos + 1
    IN IF childpos <= Len(heap)
       THEN UNION { LET c == IF rightpos <= Len(heap) /\ ~lt THEN rightpos ELSE childpos
                    IN SiftUpLoop([heap EXCEPT ![pos] = heap[c]], c)
                    : lt \in (IF rightpos <= Len(heap)
                              THEN EntryLess(heap[childpos], heap[rightpos]) ELSE {TRUE}) }
       ELSE { <<heap, pos>> }

\* heapq._siftup
siftup(heap, pos) ==
    UNION { siftdown(hp[1], pos, hp[2], heap[pos]) : hp \in SiftUpLoop(heap, pos) }

\* PriorityQueue.put (heapq.heappush): the set of resulting arrays
heappush(heap, item) == siftdown(Append(heap, item), 1, Len(heap) + 1, item)

\* PriorityQueue.get (heapq.heappop) returns heap[1]: the set of arrays left
heappop(heap) ==
    LET lastelt == heap[Len(heap)]
        rest == SubSeq(heap, 1, Len(heap) - 1)
    IN IF rest = <<>> THEN { rest } ELSE siftup([rest EXCEPT ![1] = lastelt], 1)

\* the for loop over the neighbors of current, from the i-th on; st holds
\* the cost and explored maps and the frontier: the set of resulting st
RECURSIVE Relax(_, _, _, _)
Relax(st, current, nbrs, i) ==
    IF i > Len(nbrs) THEN { st }
    ELSE LET neighbor_node == nbrs[i][1]
             neighbor_cost == Add(st.cost[current.id], get_edge_cost(nbrs[i][2]))
             priority == Add(neighbor_cost, get_heuristic(neighbor_node))
         IN IF neighbor_node.id \notin DOMAIN st.cost
               \/ Less(neighbor_cost, st.cost[neighbor_node.id])
            THEN UNION { Relax([cost |-> Put(st.cost, neighbor_node.id, neighbor_cost),
                                explored |-> Put(st.explored, neighbor_node.id, current),
                                frontier |-> f],
                               current, nbrs, i + 1)
                         : f \in heappush(st.frontier, <<priority, neighbor_node>>) }
            ELSE Relax(st, current, nbrs, i + 1)

\* the predecessor walk from the goal back to the start
RECURSIVE WalkBack(_, _)
WalkBack(ex, current) ==
    IF current.id = start.id THEN <<start>>
    ELSE Append(WalkBack(ex, ex[current.id]), current)

\* Graph.prepare: re-runs the pruning and the hugging-edge construction
prepare(g) == add_hugging_edges(clean_surfing_edges(g))

\* Astar.calculate_path up to the search loop
CalcBegin ==
    /\ pc = "idle"
    /\ start # None
    /\ goal # None
    /\ GraphBecomes(prepare(TheGraph))
    /\ frontier' = << <<0, start>> >>
    /\ explored' = Put(<<>>, start.id, None)
    /\ cost' = Put(<<>>, start.id, 0)
    /\ path' = <<>>
    /\ outcome' = "none"
    /\ printed' = <<>>
    /\ goal_dequeued' = FALSE
    /\ pc' = "search"
    /\ UNCHANGED <<obstacles, npoints, start, goal, traceVars, respondVars>>

\* one iteration of the search loop
SearchStep ==
    /\ pc = "search"
    /\ frontier # <<>>
    /\ LET current == frontier[1][2]
       IN \E rest \in heappop(frontier) :
            IF current.id = goal.id
            THEN /\ frontier' = rest
                 /\ goal_dequeued' = TRUE
                 /\ pc' = "exit"
                 /\ UNCHANGED <<explored, cost>>
            ELSE \E st \in Relax([cost |-> cost, explored |-> explored, frontier |-> rest],
                                 current, get_neighbors(TheGraph, current), 1) :
                    /\ frontier' = st.frontier
                    /\ explored' = st.explored
                    /\ cost' = st.cost
                    /\ UNCHANGED <<goal_dequeued, pc>>
    /\ UNCHANGED <<graphVars, start, goal, path, outcome, printed, traceVars, respondVars>>

\* Astar.calculate_path after the search loop: the print and the reconstruction
Reconstruct ==
    /\ \/ pc = "exit"
       \/ (pc = "search" /\ frontier = <<>>)
    /\ printed' = Append(printed, "Path found")
    /\ IF goal.id \in DOMAIN explored
       THEN /\ path' = WalkBack(explored, goal)
            /\ outcome' = "returned"
       ELSE /\ path' = <<>>                 \* self.explored[current] raises
            /\ outcome' = "KeyError"
    /\ pc' = "done"
    /\ UNCHANGED <<graphVars, start, goal, frontier, explored, cost, goal_dequeued,
                   traceVars, respondVars>>

Next ==
    \/ \E p \in PointPool : set_start(p)
    \/ \E p \in PointPool : set_goal(p)
    \/ CalcBegin
    \/ SearchStep
    \/ Reconstruct

Spec == Init /\ [][Next]_vars

-----------------------------------------------------------------------------
(* Properties of the graph and of the search, checked under Spec *)

SeqToSet(q) == { q[i] : i \in DOMAIN q }

NodeIds == { n.id : n \in SeqToSet(nodes) }

\* every node of the graph has a real position
NoNaNNode == \A n \in SeqToSet(nodes) : ~IsNaNPos(n.position)

\* the edges of the graph that join the nodes with ids a and b
EdgesJoining(a, b) ==
    { e \in SeqToSet(get_edges(TheGraph)) :
        \/ (e.first.id = a /\ e.second.id = b)
        \/ (e.first.id = b /\ e.second.id = a) }

SetMin(S) == CHOOSE x \in S : \A y \in S : x <= y

Unreached == 10000000 * Scale

\* Bellman-Ford relaxation of the distances d from the start node, until
\* nothing changes: the least total cost over all walks, which (costs being
\* positive) is the least total cost over all simple paths
RECURSIVE ShortestFrom(_, _)
ShortestFrom(d, k) ==
    LET es == SeqToSet(get_edges(TheGraph))
        c == [e \in es |-> get_edge_cost(e)]
        nd == [n \in DOMAIN d |->
                 SetMin({d[n]}
                    \cup { d[e.first.id] + c[e] : e \in { x \in es : x.second.id = n /\ d[x.first.id] < Unreached } }
                    \cup { d[e.second.id] + c[e] : e \in { x \in es : x.first.id = n /\ d[x.second.id] < Unreached } })]
    IN IF k = 0 \/ nd = d THEN d ELSE ShortestFrom(nd, k - 1)

MinimalCost ==
    ShortestFrom([n \in NodeIds |-> IF n = start.id THEN 0 ELSE Unreached],
                 Cardinality(NodeIds))[goal.id]

RECURSIVE PathCost(_, _)
PathCost(q, i) ==
    IF i >= Len(q) THEN 0
    ELSE SetMin({ get_edge_cost(e) : e \in EdgesJoining(q[i].id, q[i + 1].id) })
         + PathCost(q, i + 1)

\* C1: on a graph of real positions in which the goal is reachable from the
\* start, calculate_path returns a node sequence that begins at the start
\* node, ends at the goal node, joins consecutive nodes by edges of the graph
\* and whose total cost (sum over hops of 1 + length) is the least over all
\* start-to-goal paths, whichever way ties in the queue fall.
C1_ReturnsCheapestPath ==
    (pc = "done" /\ NoNaNNode /\ MinimalCost < Unreached) =>
        /\ outcome = "returned"
        /\ path[1] = start
        /\ path[Len(path)] = goal
        /\ \A i \in 1..(Len(path) - 1) : EdgesJoining(path[i].id, path[i + 1].id) # {}
        /\ PathCost(path, 1) = MinimalCost

\* a search that ended with a path around a disc: a hop along a hugging edge
C1_Witness ==
    /\ pc = "done"
    /\ NoNaNNode
    /\ outcome = "returned"
    /\ Len(path) >= 4
    /\ \E i \in 1..(Len(path) - 1) :
          path[i].circle.id = path[i + 1].circle.id /\ path[i].position # path[i + 1].position

\* the closed segment of the edge enters the open interior of the disc
EntersInterior(circle, edge) == Less(SegmentDistance(circle, edge), circle.r)

Outside(position, circle) ==
    Dot(VSub(position, circle.center), VSub(position, circle.center)) >= circle.r * circle.r

\* C2: for every obstacle list given to the constructor, a one-disc list
\* included, with start and goal outside every disc, no surfing hop of the
\* returned path enters the interior of a disc of the list other than the
\* discs of its endpoints; with the single disc of radius 1 at (5,0), start
\* (0,0) and goal (10,0) the returned path has four nodes.
C2_PathAvoidsEveryDisc ==
    (/\ pc = "done"
     /\ outcome = "returned"
     /\ \A d \in SeqToSet(obstacles) : Outside(start.position, d) /\ Outside(goal.position, d))
    =>
    /\ \A i \in 1..(Len(path) - 1) : \A d \in SeqToSet(obstacles) :
          (path[i].circle.id # path[i + 1].circle.id
           /\ d.id \notin {path[i].circle.id, path[i + 1].circle.id})
          => ~EntersInterior(d, Edge(path[i], path[i + 1], TRUE))
    /\ (obstacles = <<Circle(1, Scale, P(5, 0))>>
        /\ start.position = P(0, 0) /\ goal.position = P(10, 0))
       => Len(path) = 4

\* C3: after construction and after every add_point, no edge of
\* surfing_edges intersects, under check_circle_intersection, a disc
\* registered in the graph other than the two discs of its endpoints.
C3_SurfingEdgesClear ==
    \A e \in SeqToSet(surfing_edges) : \A c \in SeqToSet(circles) :
        c.id \notin {e.first.circle.id, e.second.circle.id}
        => ~check_circle_intersection(c, e)

PointNodes == { n \in SeqToSet(nodes) : n.circle.r = 0 }

\* two points were inserted on either side of a registered disc, and the
\* direct edge between them was pruned
C3_Witness ==
    /\ npoints >= 2
    /\ \E p, q \in PointNodes :
        /\ p.id # q.id
        /\ EdgesJoining(p.id, q.id) = {}
        /\ \E c \in SeqToSet(circles) : c.r > 0 /\ EntersInterior(c, Edge(p, q, TRUE))

\* the closest distance from the segment of the edge to the centre of the
\* disc is the radius exactly, at a point inside the segment
TouchesOnly(circle, edge) ==
    LET v == VSub(edge.second.position, edge.first.position)
        w == VSub(circle.center, edge.first.position)
        len == Sqrt(Dot(v, v))
    IN /\ ~IsNaNPos(edge.first.position) /\ ~IsNaNPos(edge.second.position)
       /\ len > 0 /\ len * len = Dot(v, v)
       /\ Dot(w, v) >= 0 /\ Dot(VSub(circle.center, edge.second.position), VNeg(v)) >= 0
       /\ Abs(Cross(v, w)) = circle.r * len

\* C4: the segment-circle test is strict: check_circle_intersection reports
\* no intersection when the closest distance equals the radius, so the direct
\* edge between two points that only touches a third disc, and enters no
\* disc, stays in surfing_edges.
C4_TouchingIsNoIntersection ==
    \A p, q \in PointNodes :
        (p.id # q.id /\ \E c \in SeqToSet(circles) : c.r > 0 /\ TouchesOnly(c, Edge(p, q, TRUE)))
        =>
        /\ \A c \in SeqToSet(circles) :
              (c.r > 0 /\ TouchesOnly(c, Edge(p, q, TRUE)))
              => ~check_circle_intersection(c, Edge(p, q, TRUE))
        /\ (\A c \in SeqToSet(circles) :
              c.id \in {p.circle.id, q.circle.id} \/ ~EntersInterior(c, Edge(p, q, TRUE)))
           => EdgesJoining(p.id, q.id) # {}

\* C5: when the open set empties without the goal having been dequeued,
\* calculate_path reports a distinct "no path" failure and returns no path.
C5_ReportsNoPath ==
    (pc = "done" /\ ~goal_dequeued) =>
        /\ outcome = "no path"
        /\ path = <<>>
        /\ printed = <<>>

StrictlyInside(position, circle) ==
    Dot(VSub(position, circle.center), VSub(position, circle.center)) < circle.r * circle.r

\* C6: when the start or the goal was inserted strictly inside a
\* nonzero-radius disc of the graph, planning fails: calculate_path reports a
\* failure and returns no path.
C6_PointInsideDiscFails ==
    (/\ pc = "done"
     /\ \E c \in SeqToSet(circles) :
          c.r > 0 /\ (StrictlyInside(start.position, c) \/ StrictlyInside(goal.position, c)))
    => (outcome # "returned" /\ path = <<>>)

-----------------------------------------------------------------------------
(* MoveManager.trace_path and the instruction generators *)

MaxPath == 5        \* longest path handed to trace_path

Feedrate == 99999999

\* the "G90" line that opens the stream
AbsolutePositioning == [op |-> "G90"]

\* MoveManager.generate_linear_gcode
generate_linear_gcode(node) ==
    [op |-> "G1", X |-> node.position[1], Y |-> node.position[2], F |-> Feedrate]

\* zero_to_2pi(v2v_angle(center, p)) of the vector u = p - center is compared
\* exactly: AngleIsZero(u) is "the angle is 0", LowerHalf(u) is "the angle is
\* in [pi, 2 pi)", and within one half plane the cross product orders angles.
AngleIsZero(u) == u[2] = 0 /\ u[1] >= 0
LowerHalf(u) == u[2] < 0 \/ (u[2] = 0 /\ u[1] < 0)

\* angle of u < angle of v, both in [0, 2 pi)
AngleLess(u, v) ==
    IF AngleIsZero(u) THEN ~AngleIsZero(v)
    ELSE IF AngleIsZero(v) THEN FALSE
    ELSE IF LowerHalf(u) # LowerHalf(v) THEN LowerHalf(v)
    ELSE Cross(u, v) > 0

\* the direction a zero vector stands for: atan2(0, 0) = 0
Direction(u) == IF u = <<0, 0>> THEN <<1, 0>> ELSE u

\* abs(angle of u - angle of v) > pi
AngleGapOverPi(u, v) ==
    \/ (AngleLess(u, v) /\ Cross(Direction(u), Direction(v)) < 0)
    \/ (AngleLess(v, u) /\ Cross(Direction(v), Direction(u)) < 0)

\* an arc generator that compares the two angles as they are, without the
\* exchange made when they lie more than pi apart
generate_arc_gcode_no_swap(circle, start_node, end_node) ==
    LET start_position == start_node.position
        end_position == end_node.position
        arc_center == circle.center
        a == VSub(start_position, arc_center)
        b == VSub(end_position, arc_center)
        arc_direction == IF AngleLess(a, b) THEN "G3" ELSE "G2"
    IN [op |-> arc_direction, X |-> end_position[1], Y |-> end_position[2],
        I |-> arc_center[1] - start_position[1], J |-> arc_center[2] - start_position[2],
        F |-> Feedrate]

\* MoveManager.generate_arc_gcode
generate_arc_gcode(circle, start_node, end_node) ==
    LET start_position == start_node.position
        end_position == end_node.position
        arc_center == circle.center
        a == VSub(start_position, arc_center)
        b == VSub(end_position, arc_center)
        swap == AngleGapOverPi(a, b)
        arc_s == IF swap THEN b ELSE a
        arc_e == IF swap THEN a ELSE b
        arc_direction == IF AngleLess(arc_s, arc_e) THEN "G3" ELSE "G2"
    IN [op |-> arc_direction, X |-> end_position[1], Y |-> end_position[2],
        I |-> arc_center[1] - start_position[1], J |-> arc_center[2] - start_position[2],
        F |-> Feedrate]

\* nodes a path may be made of: four on disc A (the last coincident with the
\* first), two on disc B and one point node
TraceDiscA == Circle(1, 5 * Scale, P(5, 5))
TraceDiscB == Circle(2, 5 * Scale, P(20, 5))
TraceNodes ==
    { Node(11, TraceDiscA, P(10, 5)),
      Node(12, TraceDiscA, P(5, 10)),
      Node(13, TraceDiscA, P(0, 5)),
      Node(14, TraceDiscA, P(10, 5)),
      Node(21, TraceDiscB, P(15, 5)),
      Node(22, TraceDiscB, P(20, 10)),
      Node(31, Circle(3, 0, P(12, 0)), P(12, 0)) }

TracePaths == UNION { [1..n -> TraceNodes] : n \in 1..MaxPath }

\* the state before any trace_path call
InitTrace ==
    /\ obstacles = <<>>
    /\ GraphIs(Graph(<<>>))
    /\ npoints = 0
    /\ AstarInit
    /\ TraceIdle
    /\ RespondIdle

\* trace_path up to its loop: the prefix line and the move to the start node
TraceBegin(p) ==
    /\ trace_pc = "idle"
    /\ trace_input' = p
    /\ gcode' = <<AbsolutePositioning, generate_linear_gcode(p[1])>>
    /\ arc_start' = None
    /\ trace_i' = 2
    /\ trace_pc' = "loop"
    /\ UNCHANGED <<graphVars, astarVars, respondVars>>

\* a loop iteration that closes a run without clearing arc_start
TraceStep_keeps_run ==
    /\ trace_pc = "loop"
    /\ trace_i <= Len(trace_input)
    /\ LET current_node == trace_input[trace_i]
           previous_node == trace_input[trace_i - 1]
       IN IF current_node.circle.id = previous_node.circle.id
          THEN IF current_node.position = previous_node.position
               THEN UNCHANGED <<arc_start, gcode>>
               ELSE /\ arc_start' = IF arc_start = None THEN previous_node ELSE arc_start
                    /\ UNCHANGED gcode
          ELSE IF arc_start # None
               THEN /\ gcode' = gcode \o
                           << generate_arc_gcode(arc_start.circle, arc_start, previous_node),
                              generate_linear_gcode(current_node) >>
                    /\ UNCHANGED arc_start
               ELSE /\ gcode' = Append(gcode, generate_linear_gcode(current_node))
                    /\ UNCHANGED arc_start
    /\ trace_i' = trace_i + 1
    /\ UNCHANGED <<trace_input, trace_pc, graphVars, astarVars, respondVars>>

\* a loop iteration that takes a hop between coincident nodes of a disc for
\* a hop along the disc
TraceStep_no_skip ==
    /\ trace_pc = "loop"
    /\ trace_i <= Len(trace_input)
    /\ LET current_node == trace_input[trace_i]
           previous_node == trace_input[trace_i - 1]
       IN IF current_node.circle.id = previous_node.circle.id
          THEN /\ arc_start' = IF arc_start = None THEN previous_node ELSE arc_start
               /\ UNCHANGED gcode
          ELSE IF arc_start # None
               THEN /\ gcode' = gcode \o
                           << generate_arc_gcode(arc_start.circle, arc_start, previous_node),
                              generate_linear_gcode(current_node) >>
                    /\ arc_start' = None
               ELSE /\ gcode' = Append(gcode, generate_linear_gcode(current_node))
                    /\ UNCHANGED arc_start
    /\ trace_i' = trace_i + 1
    /\ UNCHANGED <<trace_input, trace_pc, graphVars, astarVars, respondVars>>

\* one iteration of the loop of trace_path
TraceStep ==
    /\ trace_pc = "loop"
    /\ trace_i <= Len(trace_input)
    /\ LET current_node == trace_input[trace_i]
           previous_node == trace_input[trace_i - 1]
       IN IF current_node.circle.id = previous_node.circle.id
          THEN IF current_node.position = previous_node.position
               THEN UNCHANGED <<arc_start, gcode>>
               ELSE /\ arc_start' = IF arc_start = None THEN previous_node ELSE arc_start
                    /\ UNCHANGED gcode
          ELSE IF arc_start # None
               THEN /\ gcode' = gcode \o
                           << generate_arc_gcode(arc_start.circle, arc_start, previous_node),
                              generate_linear_gcode(current_node) >>
                    /\ arc_start' = None
               ELSE /\ gcode' = Append(gcode, generate_linear_gcode(current_node))
                    /\ UNCHANGED arc_start
    /\ trace_i' = trace_i + 1
    /\ UNCHANGED <<trace_input, trace_pc, graphVars, astarVars, respondVars>>

\* the return of trace_path, once the loop is over
TraceReturn ==
    /\ trace_pc = "loop"
    /\ trace_i > Len(trace_input)
    /\ trace_pc' = "done"
    /\ UNCHANGED <<trace_input, trace_i, arc_start, gcode, graphVars, astarVars, respondVars>>

\* a call of trace_path on any path
trace_path == trace_pc = "idle" /\ \E p \in TracePaths : TraceBegin(p)

NextTrace ==
    \/ trace_path
    \/ TraceStep
    \/ TraceReturn

SpecTrace == InitTrace /\ [][NextTrace]_vars

-----------------------------------------------------------------------------
(* Properties of trace_path, checked under SpecTrace *)

\* hop h of the traced path leads from its node h - 1 to its node h
SameDisc(h) == trace_input[h].circle.id = trace_input[h - 1].circle.id
Moving(h) == SameDisc(h) /\ trace_input[h].position # trace_input[h - 1].position
Leaving(h) == ~SameDisc(h)

SetMax(S) == CHOOSE x \in S : \A y \in S : x >= y

\* the same-disc hops between non-coincident positions since the last
\* leaving hop before position h: the run that is open when hop h is taken
RunHops(h) ==
    LET last == SetMax({1} \cup { k \in 2..(h - 1) : Leaving(k) })
    IN { m \in 2..(h - 1) : m > last /\ Moving(m) }

RunOpen(h) == RunHops(h) # {}
RunFirst(h) == trace_input[SetMin(RunHops(h)) - 1]

\* what an instruction says, its feedrate and the arc opcode left aside
LinearTo(node) == [kind |-> "linear", X |-> node.position[1], Y |-> node.position[2]]
ArcOver(first, last) ==
    [kind |-> "arc", X |-> last.position[1], Y |-> last.position[2],
     I |-> first.circle.center[1] - first.position[1],
     J |-> first.circle.center[2] - first.position[2]]
Said(ins) ==
    IF ins.op = "G1" THEN [kind |-> "linear", X |-> ins.X, Y |-> ins.Y]
    ELSE IF ins.op \in {"G2", "G3"}
         THEN [kind |-> "arc", X |-> ins.X, Y |-> ins.Y, I |-> ins.I, J |-> ins.J]
    ELSE [kind |-> ins.op]

\* the instructions due for the hops from h on: a leaving hop gives the arc
\* of the run it closes, if one is open, and then its linear move
RECURSIVE DueFrom(_)
DueFrom(h) ==
    IF h > Len(trace_input) THEN <<>>
    ELSE (IF Leaving(h)
          THEN (IF RunOpen(h) THEN <<ArcOver(RunFirst(h), trace_input[h - 1])>> ELSE <<>>)
               \o <<LinearTo(trace_input[h])>>
          ELSE <<>>)
         \o DueFrom(h + 1)

\* C9: every run of same-disc hops between non-coincident positions that a
\* hop to another disc follows gives exactly one arc instruction, placed
\* before the linear instruction of the leaving hop; its X/Y is the position
\* of the run's last node, its I/J the disc centre minus the position of the
\* run's first node; the nodes inside the run give no instruction, and the
\* next run starts from its own first node.
C9_OneArcPerClosedRun ==
    trace_pc = "done" =>
        [i \in 1..Len(gcode) |-> Said(gcode[i])]
          = <<[kind |-> "G90"], LinearTo(trace_input[1])>> \o DueFrom(2)

\* a traced path with two runs, each closed by a leaving hop
C9_Witness ==
    /\ trace_pc = "done"
    /\ Cardinality({ h \in 2..Len(trace_input) : Leaving(h) /\ RunOpen(h) }) >= 2
    /\ Cardinality({ i \in 1..Len(gcode) : gcode[i].op \in {"G2", "G3"} }) >= 2

\* C10: trace_path closes a pending run at the end of the path: when the
\* last hop is a same-disc hop between non-coincident positions, the output
\* ends with the arc of that run, from the run's first node to the last node
\* of the path.
C10_ClosesRunAtEnd ==
    (trace_pc = "done" /\ Len(trace_input) >= 2 /\ Moving(Len(trace_input))) =>
        Said(gcode[Len(gcode)])
          = ArcOver(RunFirst(Len(trace_input) + 1), trace_input[Len(trace_input)])

\* How a controller moves the tool on the emitted stream.  An arc starts at
\* the tool position cur, turns about the centre cur + (I, J) and ends at
\* (X, Y), counter-clockwise for G3 and clockwise for G2; an arc that ends
\* where it starts is a full turn.

\* where the vector u lies on the turn that starts at the vector a:
\* 0 at a itself, 1 within the first half turn, 2 opposite a, 3 beyond
SweepClass(a, u, ccw) ==
    LET x == IF ccw THEN Cross(a, u) ELSE 0 - Cross(a, u)
    IN IF x = 0 THEN (IF Dot(a, u) > 0 THEN 0 ELSE 2)
       ELSE IF x > 0 THEN 1 ELSE 3

\* on the turn that starts at a, u is reached no later than v
SweepBefore(a, u, v, ccw) ==
    LET cu == SweepClass(a, u, ccw)
        cv == SweepClass(a, v, ccw)
    IN \/ cu < cv
       \/ /\ cu = cv
          /\ \/ cu \in {0, 2}
             \/ (IF ccw THEN Cross(u, v) >= 0 ELSE Cross(u, v) <= 0)

\* the first node of the path, from the i-th on, that is not at position t
RECURSIVE NextAfterPoint(_, _)
NextAfterPoint(i, t) ==
    IF i <= Len(trace_input) /\ trace_input[i].position = t
    THEN NextAfterPoint(i + 1, t)
    ELSE i

\* the first node of the path, from the i-th on, that the arc about c from
\* the vector a to the vector e does not pass, in order, after the vector last
RECURSIVE NextAfterArc(_, _, _, _, _, _)
NextAfterArc(i, c, a, e, ccw, last) ==
    IF i > Len(trace_input) THEN i
    ELSE LET u == VSub(trace_input[i].position, c)
         IN IF /\ Dot(u, u) = Dot(a, a)
               /\ SweepBefore(a, last, u, ccw)
               /\ (e = a \/ SweepBefore(a, u, e, ccw))
            THEN NextAfterArc(i + 1, c, a, e, ccw, u)
            ELSE i

\* the tool position and the first node not yet visited, after the
\* instructions from the k-th on, starting at cur with the nodes before the
\* i-th visited
RECURSIVE Simulate(_, _, _)
Simulate(k, cur, i) ==
    IF k > Len(gcode) THEN <<cur, i>>
    ELSE LET ins == gcode[k]
         IN IF ins.op = "G1"
            THEN Simulate(k + 1, <<ins.X, ins.Y>>, NextAfterPoint(i, <<ins.X, ins.Y>>))
            ELSE IF ins.op \in {"G2", "G3"}
            THEN LET c == <<cur[1] + ins.I, cur[2] + ins.J>>
                     target == <<ins.X, ins.Y>>
                     passed == NextAfterArc(i, c, VSub(cur, c), VSub(target, c),
                                            ins.op = "G3", VSub(cur, c))
                 IN Simulate(k + 1, target, NextAfterPoint(passed, target))
            ELSE Simulate(k + 1, cur, i)

\* C11: for every path given to trace_path, the tool driven by the emitted
\* G1/G2/G3 stream visits the position of every node of the path in path
\* order, the nodes inside a coalesced arc run included, and stops at the
\* position of the last node of the path.
C11_StreamVisitsEveryNode ==
    trace_pc = "done" =>
        LET end == Simulate(1, <<0, 0>>, 1)
        IN /\ end[2] > Len(trace_input)
           /\ end[1] = trace_input[Len(trace_input)].position

\* hop h joins two nodes of one disc that have the same position
Coincident(h) ==
    SameDisc(h) /\ trace_input[h].position = trace_input[h - 1].position

ArcsEmitted == { i \in 1..Len(gcode) : gcode[i].op \in {"G2", "G3"} }

ProperClosedRuns ==
    { h \in 2..Len(trace_input) :
        /\ Leaving(h)
        /\ RunOpen(h)
        /\ RunFirst(h).position # trace_input[h - 1].position }

\* C14: a run whose first node and last node have the same position, once
\* the coincident hops are skipped (A, B, A' with A' coincident with A), is a
\* no-op: trace_path emits no arc instruction for it, so the arcs of the
\* stream are those of the runs that end away from where they start.
C14_DegenerateRunEmitsNothing ==
    trace_pc = "done" => Cardinality(ArcsEmitted) = Cardinality(ProperClosedRuns)

-----------------------------------------------------------------------------
(* MoveManager.generate_arc_gcode as a function of its arguments *)

\* directions from the centre of a disc of radius 5: twelve exact ones and
\* the two at about 10 and 350 degrees
ArcDirections ==
    { <<5 * Scale, 0>>, <<4 * Scale, 3 * Scale>>, <<3 * Scale, 4 * Scale>>,
      <<0, 5 * Scale>>, <<0 - 3 * Scale, 4 * Scale>>, <<0 - 4 * Scale, 3 * Scale>>,
      <<0 - 5 * Scale, 0>>, <<0 - 4 * Scale, 0 - 3 * Scale>>, <<0 - 3 * Scale, 0 - 4 * Scale>>,
      <<0, 0 - 5 * Scale>>, <<3 * Scale, 0 - 4 * Scale>>, <<4 * Scale, 0 - 3 * Scale>> }

AtTenDegrees == <<(492 * Scale) \div 100, (87 * Scale) \div 100>>
AtThreeHundredFifty == <<(492 * Scale) \div 100, 0 - (87 * Scale) \div 100>>

\* the boundary nodes of TraceDiscA in those directions (the call reads only
\* their positions and the disc)
ArcNodes ==
    { Node(40, TraceDiscA, <<TraceDiscA.center[1] + d[1], TraceDiscA.center[2] + d[2]>>) :
        d \in ArcDirections \cup {AtTenDegrees, AtThreeHundredFifty} }

\* the arguments of one call: the start node and the end node of the arc
InitArc ==
    /\ obstacles = <<>>
    /\ GraphIs(Graph(<<>>))
    /\ npoints = 0
    /\ AstarInit
    /\ RespondIdle
    /\ trace_input \in { <<S, E>> : S \in ArcNodes, E \in ArcNodes }
    /\ trace_i = 0
    /\ arc_start = None
    /\ gcode = <<>>
    /\ trace_pc = "arc"

\* the call generate_arc_gcode(circle, start_node, end_node)
GenerateArc ==
    /\ trace_pc = "arc"
    /\ gcode' = <<generate_arc_gcode(trace_input[1].circle, trace_input[1], trace_input[2])>>
    /\ trace_pc' = "arc done"
    /\ UNCHANGED <<trace_input, trace_i, arc_start, graphVars, astarVars, respondVars>>

NextArc == GenerateArc

SpecArc == InitArc /\ [][NextArc]_vars

\* C12: for a start S and an end E on a disc that are neither in the same
\* direction from the centre nor opposite, generate_arc_gcode gives the
\* opcode whose direction of travel from S to E sweeps less than pi: G3 when
\* E lies counter-clockwise of S within a half turn, G2 otherwise, with X/Y
\* the position of E and I/J the centre minus the position of S; from 10
\* degrees to 350 degrees it is the clockwise arc of 20 degrees.
C12_ArcTakesMinorSide ==
    trace_pc = "arc done" =>
        LET S == trace_input[1]
            E == trace_input[2]
            c == S.circle.center
            a == VSub(S.position, c)
            b == VSub(E.position, c)
        IN /\ gcode[1].X = E.position[1] /\ gcode[1].Y = E.position[2]
           /\ gcode[1].I = c[1] - S.position[1] /\ gcode[1].J = c[2] - S.position[2]
           /\ Cross(a, b) > 0 => gcode[1].op = "G3"
           /\ Cross(a, b) < 0 => gcode[1].op = "G2"
           /\ (a = AtTenDegrees /\ b = AtThreeHundredFifty) => gcode[1].op = "G2"

\* the arc generated from 10 degrees to 350 degrees
C12_Witness ==
    /\ trace_pc = "arc done"
    /\ VSub(trace_input[1].position, TraceDiscA.center) = AtTenDegrees
    /\ VSub(trace_input[2].position, TraceDiscA.center) = AtThreeHundredFifty
    /\ gcode[1].op = "G2"

-----------------------------------------------------------------------------
(* MoveManager.respond *)

Squares == {"a1", "a2", "b1", "b2"}

\* what stands for None where respond holds a path
NoPath == <<>>

\* PhysicalBoard.get_square_position
get_square_position(square) == <<"square", square>>

\* PhysicalBoard.get_open_capture_position: the next free staging position
get_open_capture_position == <<"staging", captured + 1>>

\* PhysicalBoard.check_capture: the destination square holds a piece
check_capture(move) == move[2] \in board

\* the state before any request
InitRespond ==
    /\ obstacles = <<>>
    /\ GraphIs(Graph(<<>>))
    /\ npoints = 0
    /\ AstarInit
    /\ TraceIdle
    /\ board \in (SUBSET Squares) \ {{}}
    /\ captured = 0
    /\ board_before = board
    /\ best_move = <<>>
    /\ map_excluded = {}
    /\ capture_path = NoPath
    /\ move_path = NoPath
    /\ calls = <<>>
    /\ respond_pc = "idle"

\* respond up to the capture test: the best move, the two positions, the map
RespondBegin(move) ==
    /\ respond_pc \in {"idle", "returned", "failed"}
    /\ move[1] \in board
    /\ best_move' = move
    /\ board_before' = board
    /\ map_excluded' = {move[1], move[2]}
    /\ capture_path' = NoPath
    /\ move_path' = NoPath
    /\ calls' = <<>>
    /\ respond_pc' = IF check_capture(move) THEN "capture" ELSE "move"
    /\ UNCHANGED <<board, captured, graphVars, astarVars, traceVars>>

\* a capture branch that plans the captured piece's path from the source square
PlanCapture_from_source ==
    /\ respond_pc = "capture"
    /\ LET s == get_square_position(best_move[1])
           g == get_open_capture_position
       IN /\ calls' = Append(calls, <<"calculate_path", s, g>>)
          /\ \/ (capture_path' = <<s, g>> /\ respond_pc' = "move")
             \/ (capture_path' = capture_path /\ respond_pc' = "failed")
    /\ UNCHANGED <<board, captured, board_before, best_move, map_excluded, move_path,
                   graphVars, astarVars, traceVars>>

\* the capture branch: set_start(end_position), set_goal(staging position),
\* calculate_path, which returns a path or raises; the plot_path statement
\* that follows it, run only when plotting, raises where no global "board"
\* is bound, which ends the request as a raise of calculate_path does
PlanCapture ==
    /\ respond_pc = "capture"
    /\ LET s == get_square_position(best_move[2])
           g == get_open_capture_position
       IN /\ calls' = Append(calls, <<"calculate_path", s, g>>)
          /\ \/ (capture_path' = <<s, g>> /\ respond_pc' = "move")
             \/ (capture_path' = capture_path /\ respond_pc' = "failed")
    /\ UNCHANGED <<board, captured, board_before, best_move, map_excluded, move_path,
                   graphVars, astarVars, traceVars>>

\* a move-path step that goes on to make_move when calculate_path raised
PlanMove_commits_anyway ==
    /\ respond_pc = "move"
    /\ LET s == get_square_position(best_move[1])
           g == get_square_position(best_move[2])
       IN /\ calls' = Append(calls, <<"calculate_path", s, g>>)
          /\ \/ (move_path' = <<s, g>> /\ respond_pc' = "commit")
             \/ (move_path' = move_path /\ respond_pc' = "commit")
    /\ UNCHANGED <<board, captured, board_before, best_move, map_excluded, capture_path,
                   graphVars, astarVars, traceVars>>

\* the move path: set_start(start_position), set_goal(end_position),
\* calculate_path, which returns a path or raises
PlanMove ==
    /\ respond_pc = "move"
    /\ LET s == get_square_position(best_move[1])
           g == get_square_position(best_move[2])
       IN /\ calls' = Append(calls, <<"calculate_path", s, g>>)
          /\ \/ (move_path' = <<s, g>> /\ respond_pc' = "commit")
             \/ (move_path' = move_path /\ respond_pc' = "failed")
    /\ UNCHANGED <<board, captured, board_before, best_move, map_excluded, capture_path,
                   graphVars, astarVars, traceVars>>

\* PhysicalBoard.make_move
make_move(b, move) == (b \ {move[1]}) \cup {move[2]}

\* board.make_move(best_move), then return [capture_path, path]
Commit ==
    /\ respond_pc = "commit"
    /\ board' = make_move(board, best_move)
    /\ captured' = IF check_capture(best_move) THEN captured + 1 ELSE captured
    /\ calls' = Append(calls, <<"make_move", best_move>>)
    /\ respond_pc' = "returned"
    /\ UNCHANGED <<board_before, best_move, map_excluded, capture_path, move_path,
                   graphVars, astarVars, traceVars>>

\* a call of respond, with any move stockfish may answer
respond == \E a \in board : \E b \in Squares \ {a} : RespondBegin(<<a, b>>)

NextRespond ==
    \/ respond
    \/ PlanCapture
    \/ PlanMove
    \/ Commit

SpecRespond == InitRespond /\ [][NextRespond]_vars

-----------------------------------------------------------------------------
(* Properties of respond, checked under SpecRespond *)

MakeMoveCalls == { i \in DOMAIN calls : calls[i][1] = "make_move" }
PlanningCalls == { i \in DOMAIN calls : calls[i][1] = "calculate_path" }

\* the move of the request captures: tested on the board the request found
IsCapture == best_move[2] \in board_before

\* C7: within one request make_move is called at most once and only after
\* every calculate_path call of the request (the capture path of a capture,
\* and the move path) has returned its path; when a planning step fails,
\* make_move is not called and the board is as it was before the request.
C7_MoveCommittedAfterPlanning ==
    /\ Cardinality(MakeMoveCalls) <= 1
    /\ \A i \in MakeMoveCalls :
          /\ \A j \in PlanningCalls : j < i
          /\ Cardinality(PlanningCalls) = (IF IsCapture THEN 2 ELSE 1)
          /\ move_path # NoPath
          /\ IsCapture => capture_path # NoPath
    /\ respond_pc \in {"capture", "move", "commit", "failed"} =>
          (MakeMoveCalls = {} /\ board = board_before)
    /\ (board # board_before) => MakeMoveCalls # {}

\* after a committed capture, a second capture whose move path failed
C7_Witness ==
    /\ respond_pc = "failed"
    /\ captured > 0
    /\ Len(calls) = 2

PlannedInOrder == [i \in 1..Cardinality(PlanningCalls) |-> calls[i]]

\* C8: a capture plans exactly two paths, first from the position of the
\* destination square to the next open staging position, then from the
\* position of the source square to that of the destination square, and
\* returns [capture_path, path]; a move that captures nothing plans the
\* source-to-destination path only and returns None as capture_path.
C8_CaptureThenMove ==
    respond_pc = "returned" =>
        LET src == get_square_position(best_move[1])
            dst == get_square_position(best_move[2])
        IN /\ PlanningCalls = 1..Cardinality(PlanningCalls)
           /\ move_path = <<src, dst>>
           /\ IF IsCapture
              THEN /\ PlannedInOrder = << <<"calculate_path", dst, <<"staging", captured>> >>,
                                          <<"calculate_path", src, dst>> >>
                   /\ capture_path = <<dst, <<"staging", captured>> >>
              ELSE /\ PlannedInOrder = << <<"calculate_path", src, dst>> >>
                   /\ capture_path = NoPath

\* a capture that returned its two paths
C8_Witness ==
    /\ respond_pc = "returned"
    /\ IsCapture
    /\ Len(calls) = 3

\* PhysicalBoard.generate_map(excluded): a disc for every piece of the board
\* except those on the named squares; here the squares that carry a disc
generate_map(b, excluded) == b \ excluded

\* C17: in a capture, the map on which the captured piece's path is planned
\* carries a disc for every piece that stays put during that motion, the
\* capturing piece on the source square among them: only the square of the
\* captured piece, the one moved in that path, is left out.
C17_CaptureMapKeepsCapturingPiece ==
    (PlanningCalls # {} /\ IsCapture) =>
        /\ best_move[1] \in generate_map(board_before, map_excluded)
        /\ generate_map(board_before, map_excluded) = board_before \ {best_move[2]}

-----------------------------------------------------------------------------
(* Properties of the hugging edges and of the constructor, checked under Spec *)

\* going counter-clockwise about the centre c from the position a, the
\* position u comes strictly after a and strictly before the position b
BetweenCcw(c, a, u, b) ==
    /\ SweepClass(VSub(a, c), VSub(u, c), TRUE) # 0
    /\ ~SweepBefore(VSub(a, c), VSub(b, c), VSub(u, c), TRUE)

\* C15: after add_hugging_edges, at construction and after every add_point,
\* the hugging edges of a nonzero-radius disc join its nodes in
\* counter-clockwise angular order about the centre: no node of the disc
\* lies strictly between the first and the second node of a hugging edge,
\* going counter-clockwise.
C15_HuggingEdgesInAngularOrder ==
    \A i \in 1..Len(hugging_edges) :
        LET e == hugging_edges[i]
        IN (~IsNaNPos(e.first.position) /\ ~IsNaNPos(e.second.position))
           => \A j \in 1..Len(nodes) :
                (nodes[j].circle.id = e.first.circle.id /\ ~IsNaNPos(nodes[j].position))
                => ~BetweenCcw(e.first.circle.center, e.first.position,
                               nodes[j].position, e.second.position)

\* the ids of the nodes the disc owns
NodeIdsOn(c) == { nodes[j].id : j \in { x \in 1..Len(nodes) : nodes[x].circle.id = c.id } }

\* the hugging edges with an end on the disc
HuggingOn(c) ==
    { i \in 1..Len(hugging_edges) :
        c.id \in {hugging_edges[i].first.circle.id, hugging_edges[i].second.circle.id} }

\* the ids met on k steps from the id n along the successor function f
RECURSIVE Orbit(_, _, _)
Orbit(f, n, k) == IF k = 0 THEN {} ELSE {n} \cup Orbit(f, f[n], k - 1)

\* C16: after construction and after any add_point calls, a nonzero-radius
\* disc that owns k nodes has exactly k hugging edges, each joining two nodes
\* of that disc, which form one cycle through every node of the disc once
\* (each node is the first of one edge and the second of one edge, and the
\* walk along the edges from a node meets all k nodes); a point disc has no
\* hugging edge; nothing is left of the edges of earlier calls.
C16_HuggingEdgesFormOneCycle ==
    \A ci \in 1..Len(circles) :
        LET c == circles[ci]
            ids == NodeIdsOn(c)
            es == HuggingOn(c)
            firsts == [i \in es |-> hugging_edges[i].first.id]
            seconds == [i \in es |-> hugging_edges[i].second.id]
            succ == [n \in ids |-> seconds[CHOOSE i \in es : firsts[i] = n]]
        IN IF c.r = 0 THEN es = {}
           ELSE /\ Cardinality(es) = Cardinality(ids)
                /\ \A i \in es :
                      /\ hugging_edges[i].first.circle.id = c.id
                      /\ hugging_edges[i].second.circle.id = c.id
                /\ \A n \in ids :
                      /\ Cardinality({ i \in es : firsts[i] = n }) = 1
                      /\ Cardinality({ i \in es : seconds[i] = n }) = 1
                /\ Orbit(succ, CHOOSE n \in ids : TRUE, Cardinality(ids)) = ids

\* two points were inserted into a graph of two discs: each disc owns its
\* bitangent nodes and the tangent nodes of the points
C16_Witness ==
    /\ npoints >= 2
    /\ \E ci \in 1..Len(circles) : circles[ci].r = 0
    /\ \E ci \in 1..Len(circles) :
          circles[ci].r > 0 /\ Cardinality(NodeIdsOn(circles[ci])) >= 10

\* the unordered pairs of distinct discs among the obstacles
UnorderedPairs == { pr \in (1..Len(obstacles)) \X (1..Len(obstacles)) : pr[1] < pr[2] }

\* C18: the constructor handles each unordered pair of distinct discs once:
\* before pruning it has made four surfing edges and eight nodes per pair,
\* 4 * n(n-1)/2 edges and 8 * n(n-1)/2 nodes for n discs, and the finished
\* graph of two discs, where nothing is pruned, has 4 surfing edges and 8
\* nodes.
C18_EachPairProcessedOnce ==
    npoints = 0 =>
        LET g == PairsFrom(EmptyGraph(100), obstacles, 1, 1)
        IN /\ Len(g.surfing_edges) = 4 * Cardinality(UnorderedPairs)
           /\ Len(g.nodes) = 8 * Cardinality(UnorderedPairs)
           /\ Len(obstacles) = 2 => (Len(surfing_edges) = 4 /\ Len(nodes) = 8)

====
